---- MODULE Spec2Model ----
(***************************************************************************)
(* A model of auto_tweet_thread_writer: the chunking algorithm             *)
(* (_chunk_text), the summariser fallback (_summarize_text), the thread    *)
(* orchestration and formatting (generate_thread) and the command entry    *)
(* point (main).                                                           *)
(*                                                                         *)
(* A string is a sequence of one-character strings, so that len, slicing,  *)
(* strip and split are computed on characters as Python computes them.     *)
(***************************************************************************)
EXTENDS Integers, Sequences, FiniteSets

VARIABLES
    pc,          \* position in the function being executed
    stack,       \* the positions to return to, innermost call first
    calls,       \* history: the external calls made, with their outcomes
    args,        \* main: the parsed arguments (lines 18-46, 52)
    exit_code,   \* main: the value returned (NotExited until it returns)
    stdout,      \* main: what was printed to standard output
    stderr,      \* main: what was printed to standard error
    file,        \* main: the file at the output path
    page,        \* generate_thread: the tuple returned by fetch_content
    chosen_title,\* generate_thread: the local `chosen_title`
    tweets,      \* generate_thread: the list `tweets`
    exc,         \* generate_thread: the exception raised ("" when none)
    text,        \* _summarize_text: the argument `text`
    api_key,     \* _summarize_text: the argument `openai_api_key`
    target_words,\* _summarize_text: the argument `target_words`
    sum_ret,     \* _summarize_text: the returned string
    summary_in,  \* _chunk_text: the argument `summary` as passed
    summary,     \* _chunk_text: the local `summary` (re-bound by line 58)
    n_parts,     \* _chunk_text: the argument `n_parts`
    sentences,   \* _chunk_text: the list `sentences` (line 62)
    k,           \* _chunk_text: index of the next sentence of the for loop
    parts,       \* _chunk_text: the list `parts`
    current,     \* _chunk_text: the string `current`
    result,      \* _chunk_text: the returned list
    greedy,      \* history: `parts` as the packing loop left it (line 81)
    nsplit,      \* history: iterations of the split loop (lines 84-90)
    nmerge,      \* history: iterations of the merge loop (lines 92-98)
    returned     \* history: the functions that have returned

chunkVars == <<summary_in, summary, n_parts, sentences, k, parts, current,
               result, greedy, nsplit, nmerge>>

sumVars == <<text, api_key, target_words, sum_ret>>

gtVars == <<page, chosen_title, tweets, exc>>

mainVars == <<args, exit_code, stdout, stderr, file>>

\* What _chunk_text leaves alone.
others == <<calls, sumVars, gtVars, mainVars>>

vars == <<pc, stack, calls, returned, chunkVars, sumVars, gtVars, mainVars>>

----------------------------------------------------------------------------
(* Bounds of the model. *)

MaxLen == 4
MaxBlocks == 3
MaxParts == 4
Scenario3Len == 1000
MaxTarget == 2
MaxOutside == 2

(* Program constants. *)

SOFT_LIMIT == 260
RESERVED == 15
MIN_TWEETS == 3
MAX_TWEETS == 20
TARGET_WORDS == 300

(* What the environment may answer. *)

\* What fetch_content may return: nothing at all, a description only, a body.
Pages ==
    { [title |-> <<>>, description |-> <<>>, content |-> <<>>],
      [title |-> <<"P">>, description |-> <<"d", ".", " ", "e">>, content |-> <<>>],
      [title |-> <<"P">>, description |-> <<"d">>,
       content |-> <<"A", ".", " ", "B", ".", " ", "C", ".", "\n", "f", " ", " ", "g">>] }

\* What the provider may answer.
ProviderAnswers == { <<" ", "S", ".", " ", "T", " ">>, <<" ">> }

----------------------------------------------------------------------------
(* Strings. *)

\* The whitespace characters of the model's alphabets (str.strip, str.split).
WS == {" ", "\n"}

Rep(c, n) == [i \in 1..n |-> c]

\* str.strip(): drop leading and trailing whitespace.
Strip(s) ==
    IF \A i \in 1..Len(s) : s[i] \in WS
    THEN <<>>
    ELSE LET lo == CHOOSE i \in 1..Len(s) :
                       s[i] \notin WS /\ \A j \in 1..(i - 1) : s[j] \in WS
             hi == CHOOSE i \in 1..Len(s) :
                       s[i] \notin WS /\ \A j \in (i + 1)..Len(s) : s[j] \in WS
         IN  SubSeq(s, lo, hi)

\* A ". " delimiter starts at position i of s.
DelimAt(s, i) == i < Len(s) /\ s[i] = "." /\ s[i + 1] = " "

\* str.split('. '): the pieces between the delimiters, left to right.
RECURSIVE Split(_)
Split(s) ==
    IF \E i \in 1..(Len(s) - 1) : DelimAt(s, i)
    THEN LET i == CHOOSE i \in 1..(Len(s) - 1) :
                      DelimAt(s, i) /\ \A j \in 1..(i - 1) : ~DelimAt(s, j)
         IN  <<SubSeq(s, 1, i - 1)>> \o Split(SubSeq(s, i + 2, Len(s)))
    ELSE <<s>>

\* `return` from the function f: continue at the caller's position, or stop
\* when there is none.
Return(f) ==
    /\ pc' = IF stack = <<>> THEN "done" ELSE Head(stack)
    /\ stack' = IF stack = <<>> THEN <<>> ELSE Tail(stack)
    /\ returned' = returned \cup {f}

\* parts[:n]
Take(ps, n) == SubSeq(ps, 1, IF n < Len(ps) THEN n ELSE Len(ps))

----------------------------------------------------------------------------
(* _chunk_text, one loop iteration at a time. *)

\* PackStep with the reserve forgotten in the test of line 75.
PackStepNoReserve(ps, cur, sent) ==
    LET seg == Strip(sent)
        tentative == IF cur # <<>> THEN cur \o <<".", " ">> \o seg ELSE seg
    IN  IF seg = <<>>
        THEN [parts |-> ps, current |-> cur]
        ELSE IF Len(tentative) > SOFT_LIMIT
             THEN [parts |-> Append(ps, cur), current |-> seg]
             ELSE [parts |-> ps, current |-> tentative]

\* PackStep with `>=` for the `>` of line 75.
PackStepInclusive(ps, cur, sent) ==
    LET seg == Strip(sent)
        tentative == IF cur # <<>> THEN cur \o <<".", " ">> \o seg ELSE seg
    IN  IF seg = <<>>
        THEN [parts |-> ps, current |-> cur]
        ELSE IF Len(tentative) + RESERVED >= SOFT_LIMIT
             THEN [parts |-> Append(ps, cur), current |-> seg]
             ELSE [parts |-> ps, current |-> tentative]

\* Lines 67-79: one iteration of the packing loop on the sentence `sent`.
PackStep(ps, cur, sent) ==
    LET seg == Strip(sent)
        tentative == IF cur # <<>> THEN cur \o <<".", " ">> \o seg ELSE seg
    IN  IF seg = <<>>
        THEN [parts |-> ps, current |-> cur]
        ELSE IF Len(tentative) + RESERVED > SOFT_LIMIT
             THEN [parts |-> Append(ps, cur), current |-> seg]
             ELSE [parts |-> ps, current |-> tentative]

\* Line 86: max(range(len(parts)), key=len): the first index of a longest part.
LongestIdx(ps) ==
    CHOOSE i \in 1..Len(ps) :
        /\ \A j \in 1..Len(ps) : Len(ps[j]) <= Len(ps[i])
        /\ \A j \in 1..(i - 1) : Len(ps[j]) < Len(ps[i])

\* SplitStep with part[half+1:] for the part[half:] of line 90.
SplitStepDropsMiddle(ps) ==
    LET idx == LongestIdx(ps)
        part == ps[idx]
        half == Len(part) \div 2
    IN  SubSeq(ps, 1, idx - 1)
          \o <<Strip(SubSeq(part, 1, half)), Strip(SubSeq(part, half + 2, Len(part)))>>
          \o SubSeq(ps, idx + 1, Len(ps))

\* Lines 86-90: one iteration of the split loop.
SplitStep(ps) ==
    LET idx == LongestIdx(ps)
        part == ps[idx]
        half == Len(part) \div 2
    IN  SubSeq(ps, 1, idx - 1)
          \o <<Strip(SubSeq(part, 1, half)), Strip(SubSeq(part, half + 1, Len(part)))>>
          \o SubSeq(ps, idx + 1, Len(ps))

\* Line 96: min(range(len(parts)-1), key=combined length): the first index of
\* an adjacent pair of smallest combined length.
SmallestPairIdx(ps) ==
    CHOOSE i \in 1..(Len(ps) - 1) :
        /\ \A j \in 1..(Len(ps) - 1) :
               Len(ps[i]) + Len(ps[i + 1]) <= Len(ps[j]) + Len(ps[j + 1])
        /\ \A j \in 1..(i - 1) :
               Len(ps[i]) + Len(ps[i + 1]) < Len(ps[j]) + Len(ps[j + 1])

\* MergeStep with parts[idx:idx+1] for the parts[idx:idx+2] of line 98.
MergeStepKeepsSecond(ps) ==
    LET idx == SmallestPairIdx(ps)
        merged == Strip(ps[idx] \o <<" ">> \o ps[idx + 1])
    IN  SubSeq(ps, 1, idx - 1) \o <<merged>> \o SubSeq(ps, idx + 1, Len(ps))

\* Lines 96-98: one iteration of the merge loop.
MergeStep(ps) ==
    LET idx == SmallestPairIdx(ps)
        merged == Strip(ps[idx] \o <<" ">> \o ps[idx + 1])
    IN  SubSeq(ps, 1, idx - 1) \o <<merged>> \o SubSeq(ps, idx + 2, Len(ps))

\* NeedSplit with `<=` for the `<` of line 84.
NeedSplitInclusive(ps, n) == Len(ps) <= n

\* Line 84: the split loop's condition.
NeedSplit(ps, n) == Len(ps) < n

\* Line 92: the merge loop's condition.
NeedMerge(ps, n) == Len(ps) > n

\* Lines 58-60: a blank summary returns n_parts empty strings.
ChunkBlank ==
    /\ pc = "chunk"
    /\ Strip(summary_in) = <<>>
    /\ summary' = Strip(summary_in)
    /\ result' = [i \in 1..n_parts |-> <<>>]
    /\ Return("_chunk_text")
    /\ UNCHANGED <<summary_in, n_parts, sentences, k, parts, current, greedy,
                   nsplit, nmerge, others>>

\* Lines 58-65: strip, tokenize, initialise the packing loop.
ChunkStart ==
    /\ pc = "chunk"
    /\ Strip(summary_in) # <<>>
    /\ summary' = Strip(summary_in)
    /\ sentences' = Split(Strip(summary_in))
    /\ k' = 1
    /\ parts' = <<>>
    /\ current' = <<>>
    /\ pc' = "pack"
    /\ UNCHANGED <<summary_in, n_parts, result, greedy, nsplit, nmerge,
                   stack, returned, others>>

\* Lines 66-79: one iteration of `for sent in sentences`.
Pack ==
    /\ pc = "pack"
    /\ k <= Len(sentences)
    /\ LET r == PackStep(parts, current, sentences[k])
       IN  parts' = r.parts /\ current' = r.current
    /\ k' = k + 1
    /\ UNCHANGED <<pc, summary_in, summary, n_parts, sentences, result, greedy,
                   nsplit, nmerge,
                   stack, returned, others>>

\* Lines 80-81: the loop is over; a non-empty `current` becomes the last part.
PackClose ==
    /\ pc = "pack"
    /\ k > Len(sentences)
    /\ parts' = IF current # <<>> THEN Append(parts, current) ELSE parts
    /\ greedy' = parts'
    /\ pc' = "split"
    /\ UNCHANGED <<summary_in, summary, n_parts, sentences, k, current, result,
                   nsplit, nmerge,
                   stack, returned, others>>

\* Lines 84-90: one iteration of `while len(parts) < n_parts`.
SplitLongest ==
    /\ pc = "split"
    /\ NeedSplit(parts, n_parts)
    /\ parts' = SplitStep(parts)
    /\ nsplit' = nsplit + 1
    /\ UNCHANGED <<pc, summary_in, summary, n_parts, sentences, k, current,
                   result, greedy, nmerge,
                   stack, returned, others>>

\* Line 84: the split loop's condition is false.
SplitExit ==
    /\ pc = "split"
    /\ ~NeedSplit(parts, n_parts)
    /\ pc' = "merge"
    /\ UNCHANGED <<summary_in, summary, n_parts, sentences, k, parts, current,
                   result, greedy, nsplit, nmerge,
                   stack, returned, others>>

\* Lines 92-98: one iteration of `while len(parts) > n_parts`.
MergeSmallest ==
    /\ pc = "merge"
    /\ NeedMerge(parts, n_parts)
    /\ ~(Len(parts) < 2)
    /\ parts' = MergeStep(parts)
    /\ nmerge' = nmerge + 1
    /\ UNCHANGED <<pc, summary_in, summary, n_parts, sentences, k, current,
                   result, greedy, nsplit,
                   stack, returned, others>>

\* Lines 94-95: `break` when fewer than two parts are left.
MergeBreak ==
    /\ pc = "merge"
    /\ NeedMerge(parts, n_parts)
    /\ Len(parts) < 2
    /\ pc' = "ret"
    /\ UNCHANGED <<summary_in, summary, n_parts, sentences, k, parts, current,
                   result, greedy, nsplit, nmerge,
                   stack, returned, others>>

\* Line 92: the merge loop's condition is false.
MergeExit ==
    /\ pc = "merge"
    /\ ~NeedMerge(parts, n_parts)
    /\ pc' = "ret"
    /\ UNCHANGED <<summary_in, summary, n_parts, sentences, k, parts, current,
                   result, greedy, nsplit, nmerge,
                   stack, returned, others>>

\* Line 99: return parts[:n_parts].
ChunkReturn ==
    /\ pc = "ret"
    /\ result' = Take(parts, n_parts)
    /\ Return("_chunk_text")
    /\ UNCHANGED <<summary_in, summary, n_parts, sentences, k, parts, current,
                   greedy, nsplit, nmerge, others>>

----------------------------------------------------------------------------
(* Optional[str]: None, or a string. *)

None == [none |-> TRUE, s |-> <<>>]

Some(s) == [none |-> FALSE, s |-> s]

\* Python's truth value of an Optional[str]: None and "" are false.
Truthy(o) == ~o.none /\ o.s # <<>>

----------------------------------------------------------------------------
(* _summarize_text. *)

\* str.split(): the maximal runs of non-whitespace characters, in order.
RECURSIVE Words(_)
Words(s) ==
    IF \A i \in 1..Len(s) : s[i] \in WS
    THEN <<>>
    ELSE LET lo == CHOOSE i \in 1..Len(s) :
                       s[i] \notin WS /\ \A j \in 1..(i - 1) : s[j] \in WS
             hi == CHOOSE i \in lo..Len(s) :
                       /\ \A j \in lo..i : s[j] \notin WS
                       /\ i = Len(s) \/ s[i + 1] \in WS
         IN  <<SubSeq(s, lo, hi)>> \o Words(SubSeq(s, hi + 1, Len(s)))

\* sep.join(ws)
RECURSIVE Join(_, _)
Join(sep, ws) ==
    IF ws = <<>> THEN <<>>
    ELSE IF Len(ws) = 1 THEN ws[1]
    ELSE ws[1] \o sep \o Join(sep, Tail(ws))

\* Fallback with words[:target_words + 1].
FallbackOneMore(words, n) == Join(<<" ">>, Take(words, n + 1))

\* Line 48: " ".join(words[:target_words]), for target_words >= 0.
Fallback(words, n) == Join(<<" ">>, Take(words, n))

\* Lines 26-28: a text without words is summarised as "".
SumEmpty ==
    /\ pc = "sum"
    /\ Words(text) = <<>>
    /\ sum_ret' = <<>>
    /\ Return("_summarize_text")
    /\ UNCHANGED <<calls, chunkVars, text, api_key, target_words, gtVars, mainVars>>

\* Lines 29, 48: without a key the fallback summarises.
SumNoKey ==
    /\ pc = "sum"
    /\ Words(text) # <<>>
    /\ ~Truthy(api_key)
    /\ sum_ret' = Fallback(Words(text), target_words)
    /\ Return("_summarize_text")
    /\ UNCHANGED <<calls, chunkVars, text, api_key, target_words, gtVars, mainVars>>

\* Lines 29-44: with a key, the provider's answer is returned stripped.
SumProviderReturns ==
    /\ pc = "sum"
    /\ Words(text) # <<>>
    /\ Truthy(api_key)
    /\ \E answer \in ProviderAnswers :
           sum_ret' = Strip(answer)
    /\ calls' = Append(calls, "openai:ok")
    /\ Return("_summarize_text")
    /\ UNCHANGED <<chunkVars, text, api_key, target_words, gtVars, mainVars>>

\* Lines 29-48: with a key, any exception of the import or of the provider
\* call is swallowed and the fallback summarises.
SumProviderRaises ==
    /\ pc = "sum"
    /\ Words(text) # <<>>
    /\ Truthy(api_key)
    /\ calls' = Append(calls, "openai:raise")
    /\ sum_ret' = Fallback(Words(text), target_words)
    /\ Return("_summarize_text")
    /\ UNCHANGED <<chunkVars, text, api_key, target_words, gtVars, mainVars>>

----------------------------------------------------------------------------
(* generate_thread. *)

\* ValidCount with `<=` and `>=` for the `<` and `>` of line 128.
ValidCountExclusive(n) == ~(n <= MIN_TWEETS \/ n >= MAX_TWEETS)

\* Line 128: the accepted range of max_tweets.
ValidCount(n) == ~(n < MIN_TWEETS \/ n > MAX_TWEETS)

\* Line 135: the palette; each marker is one symbol of the model.
emojis == << <<"E0">>, <<"E1">>, <<"E2">>, <<"E3">>, <<"E4">>,
             <<"E5">>, <<"E6">>, <<"E7">>, <<"E8">>, <<"E9">> >>

\* EmojiIndex with i for the i - 1 of line 139.
EmojiIndexFromOne(i) == i % Len(emojis)

\* Line 139: the (0-based) palette index of tweet i.
EmojiIndex(i) == (i - 1) % Len(emojis)

Digit(d) == <<"0", "1", "2", "3", "4", "5", "6", "7", "8", "9">>[d + 1]

\* The decimal digits of n >= 0, as an f-string formats an int.
RECURSIVE IntStr(_)
IntStr(n) == IF n < 10 THEN <<Digit(n)>> ELSE IntStr(n \div 10) \o <<Digit(n % 10)>>

\* Line 140: f"{emoji} {i}/{max_tweets} "
Header(i, n) ==
    emojis[EmojiIndex(i) + 1] \o <<" ">> \o IntStr(i) \o <<"/">> \o IntStr(n) \o <<" ">>

\* Line 143: the text that follows the title in the hook (the dash and the
\* apostrophes are one symbol each).
HookSuffix ==
    <<" ", "DASH", " ", "h", "e", "r", "e", "APOS", "s", " ", "w", "h", "a", "t",
      " ", "y", "o", "u", "APOS", "l", "l", " ", "l", "e", "a", "r", "n", ":">>

\* Lines 139-149: the tweet made of part i.
FormatTweet(i, part, title, n) ==
    IF i = 1
    THEN Header(i, n) \o Strip(title) \o HookSuffix \o <<"\n">> \o Strip(part)
    ELSE Header(i, n) \o Strip(part)

\* Line 131: title or page_title or url
ChooseTitle(title, page_title, url) ==
    IF Truthy(title) THEN title.s
    ELSE IF page_title # <<>> THEN page_title
    ELSE url

\* Line 132: content if content else description
BaseText(p) == IF p.content # <<>> THEN p.content ELSE p.description

\* Lines 128-129: max_tweets out of range raises ValueError, which main's
\* handler (line 60) catches.
GtInvalid ==
    /\ pc = "gt"
    /\ ~ValidCount(args.max_tweets)
    /\ exc' = "ValueError"
    /\ pc' = "main_except"
    /\ stack' = <<>>
    /\ UNCHANGED <<returned, calls, chunkVars, sumVars, page, chosen_title, tweets, mainVars>>

\* Line 128: max_tweets is in range.
GtValid ==
    /\ pc = "gt"
    /\ ValidCount(args.max_tweets)
    /\ pc' = "gt_fetch"
    /\ UNCHANGED <<returned, stack, calls, chunkVars, sumVars, gtVars, mainVars>>

\* Line 130: fetch_content returns (title, description, content).
GtFetch ==
    /\ pc = "gt_fetch"
    /\ \E p \in Pages : page' = p
    /\ calls' = Append(calls, "fetch:ok")
    /\ pc' = "gt_summarize"
    /\ UNCHANGED <<returned, stack, chunkVars, sumVars, chosen_title, tweets, exc, mainVars>>

\* Line 130: fetch_content raises (the request fails, or raise_for_status),
\* which main's handler catches.
GtFetchRaises ==
    /\ pc = "gt_fetch"
    /\ calls' = Append(calls, "fetch:raise")
    /\ exc' = "RequestException"
    /\ pc' = "main_except"
    /\ stack' = <<>>
    /\ UNCHANGED <<returned, chunkVars, sumVars, page, chosen_title, tweets, mainVars>>

\* Lines 131-133: choose the title and the text, call _summarize_text.
GtSummarize ==
    /\ pc = "gt_summarize"
    /\ chosen_title' = ChooseTitle(args.title, page.title, args.url)
    /\ text' = BaseText(page)
    /\ api_key' = args.key
    /\ target_words' = TARGET_WORDS
    /\ pc' = "sum"
    /\ stack' = <<"gt_chunk">> \o stack
    /\ UNCHANGED <<returned, calls, chunkVars, sum_ret, page, tweets, exc, mainVars>>

\* Lines 133-137: bind the summary, call _chunk_text, start with no tweets.
GtChunk ==
    /\ pc = "gt_chunk"
    /\ summary_in' = sum_ret
    /\ n_parts' = args.max_tweets
    /\ tweets' = <<>>
    /\ pc' = "chunk"
    /\ stack' = <<"gt_format">> \o stack
    /\ UNCHANGED <<returned, calls, summary, sentences, k, parts, current, result,
                   greedy, nsplit, nmerge, sumVars, page, chosen_title, exc,
                   mainVars>>

\* Lines 138-149: one iteration of `for i, part in enumerate(parts, start=1)`.
GtFormat ==
    /\ pc = "gt_format"
    /\ Len(tweets) < Len(result)
    /\ LET i == Len(tweets) + 1
       IN  tweets' = Append(tweets,
                            FormatTweet(i, result[i], chosen_title, args.max_tweets))
    /\ UNCHANGED <<returned, pc, stack, calls, chunkVars, sumVars, page, chosen_title, exc,
                   mainVars>>

\* Line 150: return tweets.
GtReturn ==
    /\ pc = "gt_format"
    /\ Len(tweets) = Len(result)
    /\ Return("generate_thread")
    /\ UNCHANGED <<calls, chunkVars, sumVars, gtVars, mainVars>>

----------------------------------------------------------------------------
(* main. *)

\* Lines 52-59: call generate_thread with the parsed arguments.
MainCall ==
    /\ pc = "main"
    /\ pc' = "gt"
    /\ stack' = <<"main_out">>
    /\ UNCHANGED <<returned, calls, chunkVars, sumVars, gtVars, mainVars>>

\* MainExcept with the `return 1` of line 62 forgotten.
MainExceptFallsThrough ==
    /\ pc = "main_except"
    /\ stderr' = Append(stderr, [msg |-> "Error generating thread", about |-> exc])
    /\ pc' = "main_out"
    /\ UNCHANGED <<returned, stack, calls, chunkVars, sumVars, gtVars, args,
                   exit_code, stdout, file>>

\* Lines 60-62: generation raised: report it and return 1.
MainExcept ==
    /\ pc = "main_except"
    /\ stderr' = Append(stderr, [msg |-> "Error generating thread", about |-> exc])
    /\ exit_code' = 1
    /\ pc' = "done"
    /\ UNCHANGED <<returned, stack, calls, chunkVars, sumVars, gtVars, args, stdout, file>>

\* Lines 63, 72-74: without an output path the thread is printed.
MainPrint ==
    /\ pc = "main_out"
    /\ ~Truthy(args.output)
    /\ stdout' = Append(stdout, [kind |-> "thread", text |-> Join(<<"\n", "\n">>, tweets)])
    /\ exit_code' = 0
    /\ pc' = "done"
    /\ UNCHANGED <<returned, stack, calls, chunkVars, sumVars, gtVars, args, stderr, file>>

\* Lines 63-68, 74: with an output path the thread is written to it.
MainWrite ==
    /\ pc = "main_out"
    /\ Truthy(args.output)
    /\ file' = [exists |-> TRUE, text |-> Join(<<"\n", "\n">>, tweets)]
    /\ calls' = Append(calls, "file:ok")
    /\ stdout' = Append(stdout, [kind |-> "saved", text |-> args.output.s])
    /\ exit_code' = 0
    /\ pc' = "done"
    /\ UNCHANGED <<returned, stack, chunkVars, sumVars, gtVars, args, stderr>>

\* Lines 65-71: open or write raises: report it and return 1.  A failed open
\* leaves the file alone; a failed write leaves it created and cut short.
MainWriteRaises ==
    /\ pc = "main_out"
    /\ Truthy(args.output)
    /\ \E at \in {"file:open_raise", "file:write_raise"} :
           /\ calls' = Append(calls, at)
           /\ file' = IF at = "file:open_raise" THEN file
                      ELSE [exists |-> TRUE, text |-> <<>>]
    /\ stderr' = Append(stderr, [msg |-> "Error writing file", about |-> "OSError"])
    /\ exit_code' = 1
    /\ pc' = "done"
    /\ UNCHANGED <<returned, stack, chunkVars, sumVars, gtVars, args, stdout>>

----------------------------------------------------------------------------
(* The inputs: the three entry points and what each is called with. *)

Alphabet == {"a", "b", ".", " "}

ShortStrings == UNION {[1..n -> Alphabet] : n \in 0..MaxLen}

Limit == SOFT_LIMIT - RESERVED

\* Sentence fragments around the packing threshold: two of the first kind
\* fit in one part, one of each kind fits exactly, two of the second kind do
\* not; the third fits alone exactly and the fourth does not fit alone.
Blocks ==
    { Rep("a", (Limit - 2) \div 2), Rep("b", (Limit - 2) \div 2 + 1),
      Rep("c", Limit), Rep("d", Limit + 1) }

RECURSIVE JoinBlocks(_)
JoinBlocks(bs) ==
    IF Len(bs) = 1 THEN bs[1]
    ELSE bs[1] \o <<".", " ">> \o JoinBlocks(Tail(bs))

LongStrings == {JoinBlocks(bs) : bs \in UNION {[1..n -> Blocks] : n \in 1..MaxBlocks}}

Scenario1 == <<"A", ".", " ", "B", ".", " ", "C", ".">>

Scenario3 == Rep("x", Scenario3Len)

Summaries == ShortStrings \cup LongStrings \cup {Scenario1, Scenario3}

\* The texts _summarize_text is called with directly.
TextAlphabet == {"a", "b", " ", "\n"}

Texts == UNION {[1..n -> TextAlphabet] : n \in 0..MaxLen}

Keys == {None, Some(<<>>), Some(<<"k">>)}

ArgSets ==
    [ url : {<<"u">>},
      title : {None, Some(<<" ", "T", " ">>)},
      key : Keys,
      max_tweets : (MIN_TWEETS - MaxOutside)..(MAX_TWEETS + MaxOutside),
      output : {None, Some(<<"o">>)} ]

NoArgs ==
    [url |-> <<>>, title |-> None, key |-> None, max_tweets |-> 0, output |-> None]

NoPage == [title |-> <<>>, description |-> <<>>, content |-> <<>>]

NotExited == 0 - 1

\* What is the same at every entry point.
InitCommon ==
    /\ stack = <<>>
    /\ calls = <<>>
    /\ exit_code = NotExited
    /\ stdout = <<>>
    /\ stderr = <<>>
    /\ file = [exists |-> FALSE, text |-> <<>>]
    /\ page = NoPage
    /\ chosen_title = <<>>
    /\ tweets = <<>>
    /\ exc = ""
    /\ sum_ret = <<>>
    /\ summary = <<>>
    /\ sentences = <<>>
    /\ k = 0
    /\ parts = <<>>
    /\ current = <<>>
    /\ result = <<>>
    /\ greedy = <<>>
    /\ nsplit = 0
    /\ nmerge = 0
    /\ returned = {}

\* _chunk_text(summary, n_parts) is called.
InitChunk ==
    /\ pc = "chunk"
    /\ summary_in \in Summaries
    /\ n_parts \in 0..MaxParts
    /\ args = NoArgs
    /\ text = <<>>
    /\ api_key = None
    /\ target_words = 0

\* _summarize_text(text, openai_api_key, target_words) is called.
InitSummarize ==
    /\ pc = "sum"
    /\ text \in Texts
    /\ api_key \in Keys
    /\ target_words \in 0..MaxTarget
    /\ args = NoArgs
    /\ summary_in = <<>>
    /\ n_parts = 0

\* main(argv) is called.
InitMain ==
    /\ pc = "main"
    /\ args \in ArgSets
    /\ text = <<>>
    /\ api_key = None
    /\ target_words = 0
    /\ summary_in = <<>>
    /\ n_parts = 0

Init == InitCommon /\ (InitChunk \/ InitSummarize \/ InitMain)

Next ==
    \/ ChunkBlank
    \/ ChunkStart
    \/ Pack
    \/ PackClose
    \/ SplitLongest
    \/ SplitExit
    \/ MergeSmallest
    \/ MergeBreak
    \/ MergeExit
    \/ ChunkReturn
    \/ SumEmpty
    \/ SumNoKey
    \/ SumProviderReturns
    \/ SumProviderRaises
    \/ GtInvalid
    \/ GtValid
    \/ GtFetch
    \/ GtFetchRaises
    \/ GtSummarize
    \/ GtChunk
    \/ GtFormat
    \/ GtReturn
    \/ MainCall
    \/ MainExcept
    \/ MainPrint
    \/ MainWrite
    \/ MainWriteRaises

Spec == Init /\ [][Next]_vars

----------------------------------------------------------------------------
(* Observations used by the properties. *)

NonBlank == Strip(summary_in) # <<>>

\* _chunk_text has returned `result`.
Returned == "_chunk_text" \in returned

\* _chunk_text is past the packing loop: `greedy` holds the packed parts.
Packed == pc \in {"split", "merge", "ret"} \/ (Returned /\ NonBlank)

\* The characters of s that are not whitespace, in order.
NonWs(s) == SelectSeq(s, LAMBDA c : c \notin WS)

\* The characters of s that are neither whitespace nor a period, in order.
Letters(s) == SelectSeq(s, LAMBDA c : c \notin WS \cup {"."})

RECURSIVE Concat(_)
Concat(ps) == IF ps = <<>> THEN <<>> ELSE Head(ps) \o Concat(Tail(ps))

\* The number of periods of s that stand after exactly g letters.
DotsInGap(s, g) ==
    Cardinality({i \in 1..Len(s) : s[i] = "." /\ Len(Letters(SubSeq(s, 1, i))) = g})

\* t is s with some of its periods deleted and nothing else changed
\* (s and t hold no whitespace).
DropsOnlyDots(s, t) ==
    /\ Letters(s) = Letters(t)
    /\ \A i \in 1..Len(t) :
           t[i] = "." =>
               LET g == Len(Letters(SubSeq(t, 1, i)))
               IN  DotsInGap(t, g) <= DotsInGap(s, g)

\* The sentence fragments the packing loop packs: the stripped, non-empty
\* pieces of the stripped summary.
Fragments(s) ==
    LET pieces == Split(Strip(s))
    IN  SelectSeq([i \in 1..Len(pieces) |-> Strip(pieces[i])], LAMBDA f : f # <<>>)

\* p is a contiguous piece of the string f.
IsPieceOf(p, f) ==
    \E o \in 0..(Len(f) - Len(p)) : SubSeq(f, o + 1, o + Len(p)) = p

\* p fits the character budget.
FitsBudget(p) == Len(p) + RESERVED <= SOFT_LIMIT

\* p fits the budget or is a piece of one single fragment of the summary.
FitsOrSingle(p) ==
    \/ FitsBudget(p)
    \/ \E i \in 1..Len(Fragments(summary_in)) : IsPieceOf(p, Fragments(summary_in)[i])

----------------------------------------------------------------------------
(* C1: for every summary and every n_parts >= 0, _chunk_text returns exactly
   n_parts strings; the split loop runs only on a non-empty list, it and the
   merge loop change the number of parts by exactly one per iteration and
   never pass n_parts, and for n_parts >= 1 the loops are left with exactly
   n_parts parts. *)
C1_ExactCount ==
    /\ Returned => Len(result) = n_parts
    /\ Packed =>
         /\ Len(greedy) >= 1
         /\ Len(parts) = Len(greedy) + nsplit - nmerge
         /\ nsplit > 0 => (nmerge = 0 /\ Len(parts) <= n_parts)
         /\ nmerge > 0 => Len(parts) >= n_parts
    /\ (pc = "ret" /\ n_parts >= 1) => Len(parts) = n_parts

\* A call whose count normalization both had to run and has returned.
C1_Witness ==
    /\ Returned /\ NonBlank
    /\ n_parts >= 2
    /\ nsplit + nmerge >= 2
    /\ Len(result) = n_parts

(* C2 as stated: for n_parts >= 1 the non-whitespace characters of the
   concatenated segments equal the non-whitespace characters of the summary. *)
C2_Original ==
    (Returned /\ n_parts >= 1) => NonWs(Concat(result)) = NonWs(summary_in)

(* C2, amended: for n_parts >= 1 the characters other than whitespace and
   periods are preserved in order, no character is added, and the only
   characters lost are periods. *)
C2_LettersPreserved ==
    (Returned /\ n_parts >= 1) =>
        DropsOnlyDots(NonWs(summary_in), NonWs(Concat(result)))

\* A returned call in which a period of the summary was lost.
C2_Witness ==
    /\ Returned /\ n_parts >= 2
    /\ nsplit >= 1
    /\ Len(NonWs(Concat(result))) < Len(NonWs(summary_in))
    /\ Len(Letters(summary_in)) >= 2

(* C3 as stated: every returned segment fits the budget
   (length + 15 <= 260) unless it is a piece of one single sentence
   fragment. *)
C3_Original ==
    (Returned /\ NonBlank) => \A i \in 1..Len(result) : FitsOrSingle(result[i])

(* C3, amended: every returned segment fits the budget
   (length + 15 <= 260) unless it is a piece of one single sentence fragment
   or a product of the merge loop (merges have run and the segment is none
   of the packed parts); as long as no merge has run, every part fits the
   budget or is a piece of one single fragment. *)
C3_BudgetUnlessMerged ==
    /\ (Packed /\ ~Returned /\ nmerge = 0) =>
           \A i \in 1..Len(parts) : FitsOrSingle(parts[i])
    /\ (Returned /\ NonBlank) =>
           \A i \in 1..Len(result) :
               \/ FitsOrSingle(result[i])
               \/ nmerge > 0 /\ \A j \in 1..Len(greedy) : greedy[j] # result[i]

\* A returned call without a merge that holds a part of several fragments at
\* the budget and a part over it.
C3_Witness ==
    /\ Returned /\ NonBlank /\ nmerge = 0
    /\ \E i \in 1..Len(result) : Len(result[i]) + RESERVED = SOFT_LIMIT
                                  /\ \E j \in 1..Len(result[i]) : result[i][j] = "."
    /\ \E i \in 1..Len(result) : ~FitsBudget(result[i])

(* C8 as stated: for a single 1000-character sentence and n_parts = 4, greedy
   packing yields exactly 1 part, three midpoint splits follow, and the 4
   returned parts are each roughly 250 characters (none empty). *)
C8_Original ==
    (Returned /\ summary_in = Scenario3 /\ n_parts = 4) =>
        /\ Len(greedy) = 1
        /\ nsplit = 3
        /\ \A i \in 1..Len(result) :
               /\ Len(result[i]) >= Scenario3Len \div 4 - 10
               /\ Len(result[i]) <= Scenario3Len \div 4 + 10

(* C9 as stated: "A. B. C." with n_parts = 3 is packed into 3 parts, no
   normalization step runs and the greedy parts are returned verbatim; and
   whenever packing yields exactly n_parts parts neither loop runs. *)
C9_Original ==
    /\ (Returned /\ summary_in = Scenario1 /\ n_parts = 3) =>
           (Len(greedy) = 3 /\ nsplit = 0 /\ nmerge = 0 /\ result = greedy)
    /\ (Returned /\ NonBlank /\ Len(greedy) = n_parts) =>
           (nsplit = 0 /\ nmerge = 0 /\ result = greedy)

(* C9, amended: "A. B. C." with n_parts = 3 is packed into the single part
   "A. B. C.", which two midpoint splits turn into "A.", "B", ". C."; and
   whenever packing yields exactly n_parts parts neither loop runs and the
   packed parts are returned verbatim. *)
C9_NoNormalization ==
    /\ (Returned /\ summary_in = Scenario1 /\ n_parts = 3) =>
           /\ greedy = <<Scenario1>>
           /\ nsplit = 2 /\ nmerge = 0
           /\ result = << <<"A", ".">>, <<"B">>, <<".", " ", "C", ".">> >>
    /\ (Packed /\ Len(greedy) = n_parts) =>
           /\ nsplit = 0 /\ nmerge = 0
           /\ parts = greedy
           /\ Returned => result = greedy

\* A returned call whose packing gave exactly the n_parts (several) parts.
C9_Witness ==
    /\ Returned /\ NonBlank
    /\ n_parts >= 2
    /\ Len(greedy) = n_parts
    /\ result = greedy

(* C10: for every non-blank summary the packed part list is non-empty, only
   its first part can be empty, and it is empty exactly when the first
   non-empty fragment alone is longer than 245 characters. *)
C10_EmptyPartOnlyFirst ==
    Packed =>
        /\ Len(greedy) >= 1
        /\ \A i \in 2..Len(greedy) : greedy[i] # <<>>
        /\ greedy[1] = <<>> <=> Len(Fragments(summary_in)[1]) + RESERVED > SOFT_LIMIT

\* A packed list whose first part is empty and is followed by several parts.
C10_Witness ==
    /\ Packed
    /\ greedy[1] = <<>>
    /\ Len(greedy) >= 3

\* main was the entry point.
MainEntry == args # NoArgs

\* generate_thread has returned its tweets to main.
ThreadReturned == "generate_thread" \in returned

\* The last call of the provider raised.
ProviderRaised == calls # <<>> /\ calls[Len(calls)] = "openai:raise"

Has(call) == \E i \in 1..Len(calls) : calls[i] = call

\* r is made of the first n words of t with single spaces between them.
IsFirstWords(r, t, n) ==
    /\ Words(r) = Take(Words(t), n)
    /\ \A i \in 1..Len(r) : r[i] # "\n"
    /\ r # <<>> => (r[1] # " " /\ r[Len(r)] # " ")
    /\ \A i \in 1..(Len(r) - 1) : ~(r[i] = " " /\ r[i + 1] = " ")

\* The decimal digits of a number below 100.
Decimal(n) == IF n < 10 THEN <<Digit(n)>> ELSE <<Digit(n \div 10), Digit(n % 10)>>

\* "{marker} {i}/{n} " with the marker of position (i-1) mod 10.
ExpectedHeader(i, n) ==
    emojis[((i - 1) % 10) + 1] \o <<" ">> \o Decimal(i) \o <<"/">> \o Decimal(n) \o <<" ">>

(* C4: generate_thread raises ValueError exactly for max_tweets < 3 or
   max_tweets > 20, and it does so before fetch_content, the provider or
   _summarize_text (which is passed target_words = 300) is called. *)
C4_ValidateFirst ==
    MainEntry =>
        /\ exc = "ValueError" =>
               /\ args.max_tweets < 3 \/ args.max_tweets > 20
               /\ calls = <<>>
               /\ returned = {}
               /\ target_words = 0
               /\ pc \in {"main_except", "done"}
        /\ (pc \notin {"main", "gt"}
              /\ (args.max_tweets < 3 \/ args.max_tweets > 20)) => exc = "ValueError"

\* main has returned after a ValueError for a count just above the range.
C4_Witness ==
    /\ MainEntry /\ pc = "done"
    /\ exc = "ValueError"
    /\ args.max_tweets = 21

(* C5: when the key is absent (None or "") or the provider call raises,
   _summarize_text returns the first target_words words of the text joined by
   single spaces; generate_thread raises nothing once the fetch has
   succeeded, and returns max_tweets tweets. *)
C5_FallbackAbsorbs ==
    /\ ("_summarize_text" \in returned /\ (~Truthy(api_key) \/ ProviderRaised)) =>
           IsFirstWords(sum_ret, text, target_words)
    /\ exc \in {"", "ValueError", "RequestException"}
    /\ (MainEntry /\ Has("fetch:ok")) =>
           /\ exc = ""
           /\ pc \in {"main_out", "done"} => (ThreadReturned /\ Len(tweets) = args.max_tweets)

\* The provider raised and the fallback cut the text to fewer words.
C5_Witness ==
    /\ "_summarize_text" \in returned
    /\ ProviderRaised
    /\ target_words >= 1
    /\ Len(Words(text)) > target_words
    /\ sum_ret # <<>>

(* C6: main returns 0 exactly when generation raised nothing and, with an
   output path, the file was written; otherwise it returns 1 with a message
   on standard error; when generation raised, nothing is printed to standard
   output and the file is not touched. *)
C6_ExitStatus ==
    MainEntry =>
        /\ pc # "done" => exit_code = NotExited
        /\ pc = "done" =>
               /\ exit_code \in {0, 1}
               /\ exit_code = 0 <=>
                      (exc = "" /\ (Truthy(args.output) => Has("file:ok")))
               /\ exit_code = 0 => stderr = <<>>
               /\ exit_code = 1 =>
                      /\ Len(stderr) = 1
                      /\ exc # "" =>
                             stderr[1] = [msg |-> "Error generating thread", about |-> exc]
                      /\ exc = "" => stderr[1].msg = "Error writing file"
               /\ (exit_code = 0 /\ ~Truthy(args.output)) =>
                      stdout = <<[kind |-> "thread", text |-> Join(<<"\n", "\n">>, tweets)]>>
               /\ (exit_code = 0 /\ Truthy(args.output)) =>
                      file = [exists |-> TRUE, text |-> Join(<<"\n", "\n">>, tweets)]
        /\ exc # "" => (stdout = <<>> /\ ~file.exists /\ ~ThreadReturned)

\* main has returned 1 because the write raised after a good generation.
C6_Witness ==
    /\ MainEntry /\ pc = "done"
    /\ exit_code = 1
    /\ exc = ""
    /\ Has("file:write_raise")

(* C7: the formatter returns max_tweets messages in the order of the parts;
   message i is "{marker} {i}/{max_tweets} " with the marker of palette
   position (i-1) mod 10, then for i = 1 the stripped title, the hook
   suffix and a newline, then the stripped part i. *)
C7_Format ==
    MainEntry =>
        /\ ThreadReturned => Len(tweets) = args.max_tweets
        /\ \A i \in 1..Len(tweets) :
               tweets[i] =
                   ExpectedHeader(i, args.max_tweets)
                     \o (IF i = 1 THEN Strip(chosen_title) \o HookSuffix \o <<"\n">>
                                  ELSE <<>>)
                     \o Strip(result[i])
        /\ Len(emojis) = 10
        /\ \A i, j \in 1..Len(emojis) : i # j => emojis[i] # emojis[j]

\* A returned thread long enough for the palette to start over.
C7_Witness ==
    /\ MainEntry /\ ThreadReturned
    /\ Len(tweets) >= 12
    /\ tweets[11][1] = "E0"
    /\ tweets[12][1] = "E1"
    /\ chosen_title # <<>>
    /\ \E i \in 2..Len(result) : result[i] # <<>>

====
